---- MODULE Spec2Model ----
(***************************************************************************)
(* Inventory stock ledger of ofgen-server: InventoryService                *)
(* (inventory.module.ts), the InventoryItem / InventoryTransaction schemas *)
(* with their pre('save') hooks, and InventoryCronService                  *)
(* (inventory.schema.ts).                                                  *)
(*                                                                         *)
(* An optional field (reservedStock of a request, stockAfter of a          *)
(* transaction) is a set with at most one element: {} is "undefined".      *)
(***************************************************************************)
EXTENDS Integers, Sequences, FiniteSets, TLC

(* ------------------------------ bounds --------------------------------- *)

\* Largest stock figure a request may produce (guard of the growing steps).
MaxStock == 2

\* Largest number of InventoryTransaction documents in the collection.
MaxTx == 2

(* ---------------------------- enumerations ----------------------------- *)

IN_STOCK == "In Stock"
LOW_STOCK == "Low Stock"
OUT_OF_STOCK == "Out of Stock"

StockStatus == {IN_STOCK, LOW_STOCK, OUT_OF_STOCK, "On Order", "Discontinued", "Quarantined"}

InboundTypes == {"Purchase", "Return", "Adjustment In"}

OutboundTypes == {"Sale", "Consumption", "Damage/Loss", "Maintenance Use", "Adjustment Out"}

TransactionType == InboundTypes \cup OutboundTypes \cup {"Transfer", "Project Allocation"}

ReservedStockAction == {"increase", "decrease", "unreserve_all"}

(* ------------------------- identifiers in play ------------------------- *)

\* The one inventory item id requests refer to.
ItemIds == {"i1"}

\* StockLocation documents of the registry: WH1 and WH2 exist, "ghost" does not.
Registry == {"WH1", "WH2"}

NoLocation == "none"

LocationRefs == Registry \cup {"ghost"}

(* ------------------------------- state --------------------------------- *)

VARIABLES items, transactions, calls

vars == <<items, transactions, calls>>

(* -------------------------- optional values ---------------------------- *)

OrZero(opt) == IF opt = {} THEN 0 ELSE CHOOSE v \in opt : TRUE

Max(a, b) == IF a >= b THEN a ELSE b

Min(a, b) == IF a <= b THEN a ELSE b

(* ------------------ inventory.schema.ts: item hooks -------------------- *)

RECURSIVE SumCurrent(_)
\* stockLevels.reduce((total, level) => total + level.currentStock, 0)
SumCurrent(levels) ==
    IF levels = <<>> THEN 0
    ELSE Head(levels).currentStock + SumCurrent(Tail(levels))

RECURSIVE MinOfMinimums(_)
\* Math.min(...stockLevels.map((level) => level.minimumLevel)), levels non-empty
MinOfMinimums(levels) ==
    IF Len(levels) = 1 THEN Head(levels).minimumLevel
    ELSE Min(Head(levels).minimumLevel, MinOfMinimums(Tail(levels)))

\* Variant: LOW_STOCK only strictly below the least minimumLevel.
DeriveStockStatusStrict(levels) ==
    LET totalStock == SumCurrent(levels)
        minLevel == MinOfMinimums(levels)
    IN  IF totalStock = 0 THEN OUT_OF_STOCK
        ELSE IF totalStock < minLevel THEN LOW_STOCK
        ELSE IN_STOCK

\* The three-way rule of the status hook and of the cron job.
DeriveStockStatus(levels) ==
    LET totalStock == SumCurrent(levels)
        minLevel == MinOfMinimums(levels)
    IN  IF totalStock = 0 THEN OUT_OF_STOCK
        ELSE IF totalStock <= minLevel THEN LOW_STOCK
        ELSE IN_STOCK

\* pre('save') #1: stockStatus from the levels.
StatusHook(doc) == [doc EXCEPT !.stockStatus = DeriveStockStatus(doc.stockLevels)]

\* Variant: the difference without the floor at 0.
ClampAvailableUnfloored(level) ==
    [level EXCEPT !.availableStock = level.currentStock - level.reservedStock]

\* availableStock = Math.max(0, currentStock - reservedStock)
ClampAvailable(level) ==
    [level EXCEPT !.availableStock = Max(0, level.currentStock - level.reservedStock)]

\* pre('save') #2 and the forEach that ends updateStockLevels.
RecomputeAvailability(levels) == [i \in 1..Len(levels) |-> ClampAvailable(levels[i])]

AvailabilityHook(doc) == [doc EXCEPT !.stockLevels = RecomputeAvailability(doc.stockLevels)]

\* Variant: a schema without min: 0 on currentStock and reservedStock.
LevelValidUnfloored(level) ==
    /\ level.availableStock >= 0
    /\ level.minimumLevel >= 0

\* The schema's min: 0 validators, which save() runs before the hooks.
LevelValid(level) ==
    /\ level.currentStock >= 0
    /\ level.reservedStock >= 0
    /\ level.availableStock >= 0
    /\ level.minimumLevel >= 0

DocValid(doc) == \A i \in 1..Len(doc.stockLevels) : LevelValid(doc.stockLevels[i])

\* What doc.save() leaves in the document: both hooks, in registration order.
PreSave(doc) == AvailabilityHook(StatusHook(doc))

\* Variant: a changed path is written as an increment of the stored value.
DeltaLevelIncrement(stored, loaded, final) ==
    [location |-> stored.location,
     currentStock |-> stored.currentStock + (final.currentStock - loaded.currentStock),
     reservedStock |-> stored.reservedStock + (final.reservedStock - loaded.reservedStock),
     availableStock |-> IF final.availableStock # loaded.availableStock
                        THEN final.availableStock ELSE stored.availableStock,
     minimumLevel |-> stored.minimumLevel]

\* save() sends only the paths whose value differs from the loaded one; the
\* stored document keeps every other path (another request may have set it).
DeltaLevel(stored, loaded, final) ==
    [location |-> stored.location,
     currentStock |-> IF final.currentStock # loaded.currentStock
                      THEN final.currentStock ELSE stored.currentStock,
     reservedStock |-> IF final.reservedStock # loaded.reservedStock
                       THEN final.reservedStock ELSE stored.reservedStock,
     availableStock |-> IF final.availableStock # loaded.availableStock
                        THEN final.availableStock ELSE stored.availableStock,
     minimumLevel |-> stored.minimumLevel]

DeltaWrite(stored, loaded, final) ==
    [stockLevels |-> [i \in 1..Len(stored.stockLevels) |->
                        DeltaLevel(stored.stockLevels[i], loaded.stockLevels[i],
                                   final.stockLevels[i])],
     stockStatus |-> IF final.stockStatus # loaded.stockStatus
                     THEN final.stockStatus ELSE stored.stockStatus,
     isActive |-> stored.isActive]

(* -------------- inventory.module.ts: updateStockLevels ----------------- *)

\* item.stockLevels.find(level => level.location.toString() === locId):
\* the index of the first level at locId, 0 when there is none.
FindLevel(levels, locId) ==
    LET hits == {i \in 1..Len(levels) : levels[i].location = locId}
    IN  IF hits = {} THEN 0 ELSE CHOOSE i \in hits : \A j \in hits : i <= j

Ok(levels) == [error |-> "", levels |-> levels]

Fail(kind, levels) == [error |-> kind, levels |-> levels]

\* Variant: a receipt at a location the item does not hold opens a level.
ApplyInboundProvisioning(levels, quantity, toLocation) ==
    LET i == FindLevel(levels, toLocation)
    IN  IF toLocation = NoLocation THEN Fail("BadRequest: toLocation required", levels)
        ELSE IF i = 0
        THEN Ok(Append(levels, [location |-> toLocation, currentStock |-> quantity,
                                reservedStock |-> 0, availableStock |-> 0,
                                minimumLevel |-> 0]))
        ELSE Ok([levels EXCEPT ![i].currentStock = @ + quantity])

\* Variant: the receipt is credited to the first level, whatever toLocation.
ApplyInboundFirstLevel(levels, quantity, toLocation) ==
    LET i == FindLevel(levels, toLocation)
    IN  IF toLocation = NoLocation THEN Fail("BadRequest: toLocation required", levels)
        ELSE IF i = 0 THEN Fail("NotFound: location not in stockLevels", levels)
        ELSE Ok([levels EXCEPT ![1].currentStock = @ + quantity])

\* case PURCHASE / RETURN / ADJUSTMENT_IN
ApplyInbound(levels, quantity, toLocation) ==
    LET i == FindLevel(levels, toLocation)
    IN  IF toLocation = NoLocation THEN Fail("BadRequest: toLocation required", levels)
        ELSE IF i = 0 THEN Fail("NotFound: location not in stockLevels", levels)
        ELSE Ok([levels EXCEPT ![i].currentStock = @ + quantity])

\* Variant: an issue beyond the stock takes what there is.
ApplyOutboundClamped(levels, quantity, fromLocation) ==
    LET i == FindLevel(levels, fromLocation)
    IN  IF fromLocation = NoLocation THEN Fail("BadRequest: fromLocation required", levels)
        ELSE IF i = 0 THEN Fail("NotFound: location not in stockLevels", levels)
        ELSE Ok([levels EXCEPT ![i].currentStock = Max(0, @ - quantity)])

\* case SALE / CONSUMPTION / DAMAGE / MAINTENANCE / ADJUSTMENT_OUT
ApplyOutbound(levels, quantity, fromLocation) ==
    LET i == FindLevel(levels, fromLocation)
    IN  IF fromLocation = NoLocation THEN Fail("BadRequest: fromLocation required", levels)
        ELSE IF i = 0 THEN Fail("NotFound: location not in stockLevels", levels)
        ELSE IF levels[i].currentStock < quantity
             THEN Fail("BadRequest: Insufficient stock", levels)
        ELSE Ok([levels EXCEPT ![i].currentStock = @ - quantity])

\* Variant: the source is debited and the destination is not credited.
ApplyTransferDebitOnly(levels, quantity, fromLocation, toLocation) ==
    LET f == FindLevel(levels, fromLocation)
        t == FindLevel(levels, toLocation)
    IN  IF fromLocation = NoLocation \/ toLocation = NoLocation
        THEN Fail("BadRequest: both locations required", levels)
        ELSE IF f = 0 \/ t = 0 THEN Fail("NotFound: location not in stockLevels", levels)
        ELSE IF levels[f].currentStock < quantity
             THEN Fail("BadRequest: Insufficient stock", levels)
        ELSE Ok([levels EXCEPT ![f].currentStock = @ - quantity])

\* case TRANSFER
ApplyTransfer(levels, quantity, fromLocation, toLocation) ==
    LET f == FindLevel(levels, fromLocation)
        t == FindLevel(levels, toLocation)
    IN  IF fromLocation = NoLocation \/ toLocation = NoLocation
        THEN Fail("BadRequest: both locations required", levels)
        ELSE IF f = 0 \/ t = 0 THEN Fail("NotFound: location not in stockLevels", levels)
        ELSE IF levels[f].currentStock < quantity
             THEN Fail("BadRequest: Insufficient stock", levels)
        ELSE LET taken == [levels EXCEPT ![f].currentStock = @ - quantity]
             IN  Ok([taken EXCEPT ![t].currentStock = @ + quantity])

\* Variant: the reservation also takes the quantity out of currentStock.
ApplyAllocationTakingStock(levels, quantity, fromLocation) ==
    LET i == FindLevel(levels, fromLocation)
    IN  IF fromLocation = NoLocation THEN Fail("BadRequest: fromLocation required", levels)
        ELSE IF i = 0 THEN Fail("NotFound: location not in stockLevels", levels)
        ELSE IF levels[i].currentStock - levels[i].reservedStock < quantity
             THEN Fail("BadRequest: Insufficient available stock", levels)
        ELSE Ok([levels EXCEPT ![i] = ClampAvailable([@ EXCEPT !.reservedStock = @ + quantity,
                                                              !.currentStock = @ - quantity])])

\* Variant: the check compares the quantity with currentStock alone.
ApplyAllocationIgnoringReserved(levels, quantity, fromLocation) ==
    LET i == FindLevel(levels, fromLocation)
    IN  IF fromLocation = NoLocation THEN Fail("BadRequest: fromLocation required", levels)
        ELSE IF i = 0 THEN Fail("NotFound: location not in stockLevels", levels)
        ELSE IF levels[i].currentStock < quantity
             THEN Fail("BadRequest: Insufficient available stock", levels)
        ELSE Ok([levels EXCEPT ![i] = ClampAvailable([@ EXCEPT !.reservedStock = @ + quantity])])

\* case ALLOCATION
ApplyAllocation(levels, quantity, fromLocation) ==
    LET i == FindLevel(levels, fromLocation)
    IN  IF fromLocation = NoLocation THEN Fail("BadRequest: fromLocation required", levels)
        ELSE IF i = 0 THEN Fail("NotFound: location not in stockLevels", levels)
        ELSE IF levels[i].currentStock - levels[i].reservedStock < quantity
             THEN Fail("BadRequest: Insufficient available stock", levels)
        ELSE Ok([levels EXCEPT ![i] = ClampAvailable([@ EXCEPT !.reservedStock = @ + quantity])])

\* switch (transactionType)
ApplyTransactionType(levels, dto) ==
    IF dto.transactionType \in InboundTypes
    THEN ApplyInbound(levels, dto.quantity, dto.toLocation)
    ELSE IF dto.transactionType \in OutboundTypes
    THEN ApplyOutbound(levels, dto.quantity, dto.fromLocation)
    ELSE IF dto.transactionType = "Transfer"
    THEN ApplyTransfer(levels, dto.quantity, dto.fromLocation, dto.toLocation)
    ELSE IF dto.transactionType = "Project Allocation"
    THEN ApplyAllocation(levels, dto.quantity, dto.fromLocation)
    ELSE Fail("BadRequest: Unsupported transaction type", levels)

\* The document updateStockLevels hands to item.save(), from the loaded one:
\* the switch, then availableStock of every level.
MutatedDoc(loaded, dto) ==
    LET applied == ApplyTransactionType(loaded.stockLevels, dto)
    IN  [error |-> applied.error,
         doc |-> [loaded EXCEPT !.stockLevels = RecomputeAvailability(applied.levels)]]

\* item.save(): the validators reject, or the hooks run and the changed paths
\* are written over the stored document.
SaveItem(stored, loaded, doc) ==
    IF ~DocValid(doc) THEN [error |-> "ValidationError", item |-> stored]
    ELSE [error |-> "", item |-> DeltaWrite(stored, loaded, PreSave(doc))]

\* updateStockLevels as a whole, against the stored document it loaded.
UpdateStockLevels(stored, loaded, dto) ==
    LET m == MutatedDoc(loaded, dto)
    IN  IF m.error # "" THEN [error |-> m.error, item |-> stored]
        ELSE SaveItem(stored, loaded, m.doc)

(* --------------- inventory.module.ts: createTransaction ---------------- *)

RECURSIVE SumAvailable(_)
SumAvailable(levels) ==
    IF levels = <<>> THEN 0
    ELSE Head(levels).availableStock + SumAvailable(Tail(levels))

\* Variant: the snapshot totals availableStock.
TotalAvailable(item) == SumAvailable(item.stockLevels)

\* totalStock of calculateItemStats / calculateStockStats
TotalStock(item) == SumCurrent(item.stockLevels)

\* validateTransactionLocations: countDocuments({_id: {$in: ids}}) against the
\* number of ids supplied.
SuppliedLocations(dto) ==
    (IF dto.fromLocation # NoLocation THEN <<dto.fromLocation>> ELSE <<>>)
    \o (IF dto.toLocation # NoLocation THEN <<dto.toLocation>> ELSE <<>>)

CountDocuments(ids) == Cardinality({l \in Registry : \E k \in 1..Len(ids) : ids[k] = l})

\* Variant: one known location is enough.
ValidateAnyLocation(dto) ==
    LET locationIds == SuppliedLocations(dto)
    IN  Len(locationIds) = 0 \/ CountDocuments(locationIds) > 0

ValidateTransactionLocations(dto) ==
    LET locationIds == SuppliedLocations(dto)
    IN  Len(locationIds) = 0 \/ CountDocuments(locationIds) = Len(locationIds)

\* new this.transactionModel({...dto, stockBefore})
TransactionShell(dto, stockBefore) ==
    [inventoryItem |-> dto.inventoryItem,
     transactionType |-> dto.transactionType,
     quantity |-> dto.quantity,
     fromLocation |-> dto.fromLocation,
     toLocation |-> dto.toLocation,
     stockBefore |-> {stockBefore},
     stockAfter |-> {}]

\* InventoryTransaction validators: the enum, min: 0 of the two snapshots.
TransactionValid(tx) ==
    /\ tx.transactionType \in TransactionType
    /\ \A b \in tx.stockBefore : b >= 0
    /\ \A a \in tx.stockAfter : a >= 0

\* Variant: the shell is taken back when updateStockLevels throws.
CreateTransactionOutcomeRollingBack(its, txs, dto) ==
    LET id == dto.inventoryItem
    IN  IF id \notin DOMAIN its
        THEN [error |-> "NotFound: Inventory item not found", items |-> its, transactions |-> txs]
        ELSE IF ~ValidateTransactionLocations(dto)
        THEN [error |-> "BadRequest: locations do not exist", items |-> its, transactions |-> txs]
        ELSE LET shell == TransactionShell(dto, TotalStock(its[id]))
                 upd == UpdateStockLevels(its[id], its[id], dto)
             IN  IF ~TransactionValid(shell)
                 THEN [error |-> "ValidationError", items |-> its, transactions |-> txs]
                 ELSE IF upd.error # ""
                 THEN [error |-> upd.error, items |-> its, transactions |-> txs]
                 ELSE [error |-> "",
                       items |-> [its EXCEPT ![id] = upd.item],
                       transactions |->
                           Append(txs, [shell EXCEPT !.stockAfter = {TotalStock(upd.item)}])]

\* createTransaction run from the stores (its, txs) without interruption.
CreateTransactionOutcome(its, txs, dto) ==
    LET id == dto.inventoryItem
    IN  IF id \notin DOMAIN its
        THEN [error |-> "NotFound: Inventory item not found", items |-> its, transactions |-> txs]
        ELSE IF ~ValidateTransactionLocations(dto)
        THEN [error |-> "BadRequest: locations do not exist", items |-> its, transactions |-> txs]
        ELSE LET shell == TransactionShell(dto, TotalStock(its[id]))
                 upd == UpdateStockLevels(its[id], its[id], dto)
             IN  IF ~TransactionValid(shell)
                 THEN [error |-> "ValidationError", items |-> its, transactions |-> txs]
                 ELSE IF upd.error # ""
                 THEN [error |-> upd.error, items |-> its,
                       transactions |-> Append(txs, shell)]
                 ELSE [error |-> "",
                       items |-> [its EXCEPT ![id] = upd.item],
                       transactions |->
                           Append(txs, [shell EXCEPT !.stockAfter = {TotalStock(upd.item)}])]

(* ------------- inventory.module.ts: updateReservedStock ---------------- *)

\* Variant: a quantity beyond the limit is cut down to the limit.
ReserveSwitchClamping(level, action, quantity) ==
    IF action = "increase"
    THEN [error |-> "",
          level |-> [level EXCEPT !.reservedStock =
                        @ + Min(OrZero(quantity), level.currentStock - level.reservedStock)],
          quantity |-> quantity]
    ELSE IF action = "decrease"
    THEN [error |-> "",
          level |-> [level EXCEPT !.reservedStock = @ - Min(OrZero(quantity), @)],
          quantity |-> quantity]
    ELSE IF action = "unreserve_all"
    THEN [error |-> "", level |-> [level EXCEPT !.reservedStock = 0],
          quantity |-> IF level.reservedStock > 0 THEN {level.reservedStock} ELSE quantity]
    ELSE [error |-> "BadRequest: Unsupported action", level |-> level, quantity |-> quantity]

\* Variant: an increase is granted without looking at what is available.
ReserveSwitchUnchecked(level, action, quantity) ==
    IF action = "increase"
    THEN [error |-> "", level |-> [level EXCEPT !.reservedStock = @ + OrZero(quantity)],
          quantity |-> quantity]
    ELSE IF action = "decrease"
    THEN IF level.reservedStock < OrZero(quantity)
         THEN [error |-> "BadRequest: Cannot unreserve more than reserved", level |-> level,
               quantity |-> quantity]
         ELSE [error |-> "", level |-> [level EXCEPT !.reservedStock = @ - OrZero(quantity)],
               quantity |-> quantity]
    ELSE IF action = "unreserve_all"
    THEN [error |-> "", level |-> [level EXCEPT !.reservedStock = 0],
          quantity |-> IF level.reservedStock > 0 THEN {level.reservedStock} ELSE quantity]
    ELSE [error |-> "BadRequest: Unsupported action", level |-> level, quantity |-> quantity]

\* The switch on the action, on the located level (reservedStock || 0 done).
ReserveSwitch(level, action, quantity) ==
    IF action = "increase"
    THEN IF level.currentStock - level.reservedStock < OrZero(quantity)
         THEN [error |-> "BadRequest: Cannot reserve more than available", level |-> level,
               quantity |-> quantity]
         ELSE [error |-> "", level |-> [level EXCEPT !.reservedStock = @ + OrZero(quantity)],
               quantity |-> quantity]
    ELSE IF action = "decrease"
    THEN IF level.reservedStock < OrZero(quantity)
         THEN [error |-> "BadRequest: Cannot unreserve more than reserved", level |-> level,
               quantity |-> quantity]
         ELSE [error |-> "", level |-> [level EXCEPT !.reservedStock = @ - OrZero(quantity)],
               quantity |-> quantity]
    ELSE IF action = "unreserve_all"
    THEN [error |-> "", level |-> [level EXCEPT !.reservedStock = 0],
          quantity |-> IF level.reservedStock > 0 THEN {level.reservedStock} ELSE quantity]
    ELSE [error |-> "BadRequest: Unsupported action", level |-> level, quantity |-> quantity]

\* The audit record of transactionModel.create({...}).
ReservationRecord(dto, quantity) ==
    [inventoryItem |-> dto.inventoryItem,
     transactionType |-> IF dto.action = "increase" THEN "Project Allocation" ELSE "Return",
     quantity |-> quantity,
     fromLocation |-> dto.location,
     toLocation |-> NoLocation,
     stockBefore |-> {},
     stockAfter |-> {}]

\* The document updateReservedStock hands to item.save(), from the loaded
\* one, and the quantity its record will carry.
ReservedDoc(loaded, dto) ==
    LET i == FindLevel(loaded.stockLevels, dto.location)
    IN  IF i = 0
        THEN [error |-> "NotFound: Location not found in item stock levels",
              doc |-> loaded, quantity |-> dto.quantity]
        ELSE LET sw == ReserveSwitch(loaded.stockLevels[i], dto.action, dto.quantity)
             IN  [error |-> sw.error,
                  doc |-> [loaded EXCEPT !.stockLevels[i] = ClampAvailable(sw.level)],
                  quantity |-> sw.quantity]

\* !quantity of an increase or a decrease
QuantityMissing(dto) == dto.action \in {"increase", "decrease"} /\ OrZero(dto.quantity) = 0

\* updateReservedStock run from the stores without interruption.
UpdateReservedStockOutcome(its, txs, dto) ==
    LET id == dto.inventoryItem
        unchanged(e) == [error |-> e, items |-> its, transactions |-> txs]
    IN  IF QuantityMissing(dto) THEN unchanged("BadRequest: Quantity is required")
        ELSE IF id \notin DOMAIN its THEN unchanged("NotFound: Inventory item not found")
        ELSE LET r == ReservedDoc(its[id], dto)
                 saved == SaveItem(its[id], its[id], r.doc)
             IN  IF r.error # "" THEN unchanged(r.error)
                 ELSE IF saved.error # "" THEN unchanged(saved.error)
                 ELSE [error |-> "",
                       items |-> [its EXCEPT ![id] = saved.item],
                       transactions |->
                           IF OrZero(r.quantity) > 0
                           THEN Append(txs, ReservationRecord(dto, OrZero(r.quantity)))
                           ELSE txs]

(* ------ inventory.module.ts: createInventoryItem / updateInventoryItem -- *)

\* A StockLevel subdocument cast from a request's stock level: the schema
\* defaults fill reservedStock and availableStock.
CastLevel(sl) ==
    [location |-> sl.location,
     currentStock |-> sl.currentStock,
     reservedStock |-> OrZero(sl.reservedStock),
     availableStock |-> 0,
     minimumLevel |-> sl.minimumLevel]

CastLevels(stockLevels) == [i \in 1..Len(stockLevels) |-> CastLevel(stockLevels[i])]

\* Variant: every location id is looked up on its own.
StockLocationsExistEach(stockLevels) ==
    \A i \in 1..Len(stockLevels) : stockLevels[i].location \in Registry

\* stockLocationModel.find({_id: {$in: locationIds}}).length === locationIds.length
StockLocationsExist(stockLevels) ==
    CountDocuments([i \in 1..Len(stockLevels) |-> stockLevels[i].location]) = Len(stockLevels)

\* new this.inventoryModel({...dto, stockLevels}) followed by save()
CreateInventoryItemOutcome(its, id, stockLevels) ==
    LET doc == [stockLevels |-> CastLevels(stockLevels),
                stockStatus |-> IN_STOCK,
                isActive |-> TRUE]
    IN  IF id \in DOMAIN its THEN [error |-> "Conflict: item code exists", items |-> its]
        ELSE IF ~StockLocationsExist(stockLevels)
        THEN [error |-> "BadRequest: stock locations do not exist", items |-> its]
        ELSE IF ~DocValid(doc) THEN [error |-> "ValidationError", items |-> its]
        ELSE [error |-> "", items |-> (id :> PreSave(doc)) @@ its]

\* findByIdAndUpdate(id, {...dto, stockLevels}): no save(), so neither the
\* validators nor the hooks run; stockStatus keeps its stored value.
UpdateInventoryItemOutcome(its, id, stockLevels) ==
    IF id \notin DOMAIN its THEN [error |-> "NotFound: item", items |-> its]
    ELSE IF ~StockLocationsExist(stockLevels)
    THEN [error |-> "BadRequest: stock locations do not exist", items |-> its]
    ELSE [error |-> "",
          items |-> [its EXCEPT ![id].stockLevels = CastLevels(stockLevels)]]

(* -------------- inventory.module.ts: calculateItemStats ---------------- *)

\* The stockStatus of the item view: OUT_OF_STOCK at total 0, LOW_STOCK when
\* some level has currentStock <= (minimumLevel || 0), else IN_STOCK.
ItemStatsStatus(levels) ==
    IF SumCurrent(levels) = 0 THEN OUT_OF_STOCK
    ELSE IF \E i \in 1..Len(levels) : levels[i].currentStock <= levels[i].minimumLevel
    THEN LOW_STOCK
    ELSE IN_STOCK

(* --------------- inventory.module.ts: bulkUpdateStock ------------------ *)

BulkOperations == {"add", "subtract", "set"}

\* The request createTransaction is handed for a type, a quantity and the
\* entry's location; none when the quantity is not positive.
BulkDto(update, transactionType, quantity) ==
    IF quantity > 0
    THEN {[inventoryItem |-> update.itemId,
           transactionType |-> transactionType,
           quantity |-> quantity,
           fromLocation |->
               IF transactionType = "Adjustment Out" THEN update.locationId ELSE NoLocation,
           toLocation |->
               IF transactionType = "Adjustment In" THEN update.locationId ELSE NoLocation]}
    ELSE {}

\* Variant: 'set' hands the target on as the quantity to add.
BulkTransactionSetAsAdd(its, update) ==
    [error |-> "",
     dtos |-> BulkDto(update,
                      IF update.operation = "subtract" THEN "Adjustment Out" ELSE "Adjustment In",
                      update.quantity)]

\* The switch on update.operation: the request one entry turns into.
BulkTransaction(its, update) ==
    IF update.operation = "add"
    THEN [error |-> "", dtos |-> BulkDto(update, "Adjustment In", update.quantity)]
    ELSE IF update.operation = "subtract"
    THEN [error |-> "", dtos |-> BulkDto(update, "Adjustment Out", update.quantity)]
    ELSE IF update.itemId \notin DOMAIN its
    THEN [error |-> "TypeError: currentItem is null", dtos |-> {}]
    ELSE LET levels == its[update.itemId].stockLevels
             i == FindLevel(levels, update.locationId)
             difference == update.quantity - levels[i].currentStock
         IN  IF i = 0
             THEN [error |-> "",
                   dtos |-> BulkDto(update, "Adjustment In", update.quantity)]
             ELSE [error |-> "",
                   dtos |-> BulkDto(update,
                                    IF difference > 0 THEN "Adjustment In" ELSE "Adjustment Out",
                                    IF difference >= 0 THEN difference ELSE 0 - difference)]

RECURSIVE BulkLoop(_, _, _)
\* for (const update of bulkUpdateDto.updates): the entries in order, each
\* awaited; the first error ends the loop with the stores as they are.
BulkLoop(its, txs, updates) ==
    IF updates = <<>> THEN [error |-> "", items |-> its, transactions |-> txs]
    ELSE LET t == BulkTransaction(its, Head(updates))
         IN  IF t.error # "" THEN [error |-> t.error, items |-> its, transactions |-> txs]
             ELSE IF t.dtos = {} THEN BulkLoop(its, txs, Tail(updates))
             ELSE LET out == CreateTransactionOutcome(its, txs, CHOOSE d \in t.dtos : TRUE)
                  IN  IF out.error # "" THEN out
                      ELSE BulkLoop(out.items, out.transactions, Tail(updates))

\* Variant: a batch that fails leaves the stores as it found them.
BulkUpdateStockOutcomeAtomic(its, txs, updates) ==
    LET out == BulkLoop(its, txs, updates)
    IN  IF out.error # "" THEN [error |-> out.error, items |-> its, transactions |-> txs]
        ELSE out

\* try { loop } catch (error) { throw error }
BulkUpdateStockOutcome(its, txs, updates) == BulkLoop(its, txs, updates)

(* -------- inventory.schema.ts: InventoryCronService (the sweep) -------- *)

\* Variant: the job derives the status and saves nothing.
AlignItemSkipping(stored, loaded) == [error |-> "", item |-> stored, wrote |-> FALSE]

\* Variant: every item is saved, whether or not its status differs.
AlignItemAlways(stored, loaded) ==
    LET newStatus == DeriveStockStatus(loaded.stockLevels)
        saved == SaveItem(stored, loaded, [loaded EXCEPT !.stockStatus = newStatus])
    IN  [error |-> saved.error, item |-> saved.item, wrote |-> saved.error = ""]

\* One item of the loop of handleStockStatusAlignment, against the stored
\* document: a save() only when the derived status differs.
AlignItem(stored, loaded) ==
    LET newStatus == DeriveStockStatus(loaded.stockLevels)
    IN  IF loaded.stockStatus = newStatus THEN [error |-> "", item |-> stored, wrote |-> FALSE]
        ELSE LET saved == SaveItem(stored, loaded, [loaded EXCEPT !.stockStatus = newStatus])
             IN  [error |-> saved.error, item |-> saved.item, wrote |-> saved.error = ""]

(* ------------------------------ requests ------------------------------- *)

\* Quantities a request carries: CreateTransactionDto.quantity is any number.
Quantities == {0 - 1, 1, MaxStock}

OptionalLocations == {NoLocation} \cup LocationRefs

\* Requests name the locations their type reads, or leave them out; "ghost"
\* is an id the registry does not hold.
TransactionDtosOf(types) ==
    [inventoryItem : ItemIds,
     transactionType : types \cap InboundTypes,
     quantity : Quantities,
     fromLocation : {NoLocation},
     toLocation : OptionalLocations]
    \cup
    [inventoryItem : ItemIds,
     transactionType : types \cap (OutboundTypes \cup {"Project Allocation"}),
     quantity : Quantities,
     fromLocation : OptionalLocations,
     toLocation : {NoLocation}]
    \cup
    [inventoryItem : ItemIds,
     transactionType : types \cap {"Transfer"},
     quantity : Quantities,
     fromLocation : {"WH1", "WH2"},
     toLocation : OptionalLocations]

\* Every request of one operation: all ten types.
CreateTransactionDtos == TransactionDtosOf(TransactionType)

\* The types drawn where requests follow one another: two per direction,
\* the two that read two fields, and the one updateReservedStock also records.
LedgerTypes == {"Purchase", "Return", "Sale", "Damage/Loss", "Transfer", "Project Allocation"}

LedgerDtos == TransactionDtosOf(LedgerTypes)

\* ReservedStockUpdateDto.quantity is optional and declared @Min(0); no
\* ValidationPipe is installed, so the handler can also be handed a negative.
ReservedDtosOf(quantities) ==
    [inventoryItem : ItemIds,
     location : LocationRefs,
     action : ReservedStockAction,
     quantity : quantities]

ReservedStockUpdateDtos == ReservedDtosOf({{}, {1}, {MaxStock}})

AnyReservedStockUpdateDtos == ReservedDtosOf({{}, {0}} \cup {{q} : q \in Quantities})

\* Stock levels of a create / update request.
StockLevelDtos(loc, stocks, reserves, minimums) ==
    [location : {loc}, currentStock : stocks, reservedStock : reserves,
     minimumLevel : minimums]

\* One level, at WH1.
SingleLevels == StockLevelDtos("WH1", {0, MaxStock}, {{}, {1}}, {0, MaxStock})

\* Two levels: WH1 then WH2, or a second level whose location repeats the
\* first or is unknown to the registry.
FirstLevels == StockLevelDtos("WH1", {0, MaxStock}, {{}}, {0, MaxStock})

SecondLevels ==
    StockLevelDtos("WH2", {0, MaxStock}, {{}}, {MaxStock})
    \cup StockLevelDtos("WH1", {0}, {{}}, {0})
    \cup StockLevelDtos("ghost", {0}, {{}}, {0})

StockLevelLists ==
    {<<a>> : a \in SingleLevels} \cup {<<a, b>> : a \in FirstLevels, b \in SecondLevels}

(* --------------------------- the state machine ------------------------- *)

\* The requests in flight: two request handlers and the cron job.
Workers == {"p1", "p2"}

Cron == "cron"

Idle == [pc |-> "idle"]

Init ==
    /\ items = <<>>
    /\ transactions = <<>>
    /\ calls = [p \in Workers \cup {Cron} |-> Idle]

\* The model's cap on the figures a step may produce.
WithinBounds(its, txs) ==
    /\ Len(txs) <= MaxTx
    /\ \A id \in DOMAIN its : \A i \in 1..Len(its[id].stockLevels) :
          /\ its[id].stockLevels[i].currentStock <= MaxStock
          /\ its[id].stockLevels[i].reservedStock <= MaxStock

\* A request the handler rejects before it has written anything leaves no
\* step: the actions below are enabled when the request writes.

CreateInventoryItem(id, stockLevels) ==
    LET out == CreateInventoryItemOutcome(items, id, stockLevels)
    IN  /\ id \notin DOMAIN items
        /\ out.error = ""
        /\ items' = out.items
        /\ UNCHANGED <<transactions, calls>>

UpdateInventoryItem(id, stockLevels) ==
    LET out == UpdateInventoryItemOutcome(items, id, stockLevels)
    IN  /\ id \in DOMAIN items
        /\ out.error = ""
        /\ items' = out.items
        /\ UNCHANGED <<transactions, calls>>

\* A rejected createTransaction still writes when it got as far as the shell.
CreateTransaction(dto) ==
    LET out == CreateTransactionOutcome(items, transactions, dto)
    IN  /\ dto.inventoryItem \in DOMAIN items
        /\ Len(transactions) < MaxTx
        /\ out.transactions # transactions
        /\ WithinBounds(out.items, out.transactions)
        /\ items' = out.items
        /\ transactions' = out.transactions
        /\ UNCHANGED calls

UpdateReservedStock(dto) ==
    LET out == UpdateReservedStockOutcome(items, transactions, dto)
    IN  /\ dto.inventoryItem \in DOMAIN items
        /\ out.error = ""
        /\ WithinBounds(out.items, out.transactions)
        /\ items' = out.items
        /\ transactions' = out.transactions
        /\ UNCHANGED calls

\* The cron job runs whether or not an item needs a write.
HandleStockStatusAlignment ==
    /\ items' = [id \in DOMAIN items |-> AlignItem(items[id], items[id]).item]
    /\ UNCHANGED <<transactions, calls>>

\* Requests served one after the other.
Next ==
    \/ \E id \in ItemIds, sl \in StockLevelLists : CreateInventoryItem(id, sl)
    \/ \E dto \in LedgerDtos : CreateTransaction(dto)
    \/ \E dto \in ReservedStockUpdateDtos : UpdateReservedStock(dto)
    \/ HandleStockStatusAlignment

Spec == Init /\ [][Next]_vars

\* Direct edits of the item (updateInventoryItem) among the requests, the
\* ledger operations while the ledger is still empty.
EditNext ==
    \/ \E id \in ItemIds, sl \in StockLevelLists : CreateInventoryItem(id, sl)
    \/ \E id \in ItemIds, sl \in StockLevelLists : UpdateInventoryItem(id, sl)
    \/ \E dto \in LedgerDtos : transactions = <<>> /\ CreateTransaction(dto)
    \/ \E dto \in ReservedStockUpdateDtos : transactions = <<>> /\ UpdateReservedStock(dto)
    \/ HandleStockStatusAlignment

EditSpec == Init /\ [][EditNext]_vars

(* ------------------------- requests in flight -------------------------- *)

\* Every await on the item or the transaction store is a step; what a handler
\* does between two awaits belongs to the step of the first.

\* Requests of the interleaved handlers: one level, at WH1.
ConcurrentLevels == {<<a>> : a \in StockLevelDtos("WH1", {MaxStock}, {{}}, {0, 1})}

\* A receipt and an issue; reservations come through updateReservedStock.
ConcurrentTypes == {"Purchase", "Sale"}

ConcurrentTransactionDtos ==
    {dto \in TransactionDtosOf(ConcurrentTypes) :
        dto.fromLocation \in {NoLocation, "WH1"} /\ dto.toLocation \in {NoLocation, "WH1"}
        /\ <<dto.fromLocation, dto.toLocation>> # <<NoLocation, NoLocation>>}

\* The same with a quantity above zero.
PositiveTransactionDtos == {dto \in ConcurrentTransactionDtos : dto.quantity > 0}

ConcurrentReservedDtos ==
    {dto \in AnyReservedStockUpdateDtos :
        dto.location = "WH1" /\ dto.quantity \in {{}, {0 - 1}, {1}}}

\* The handlers are interchangeable: a request is taken by the first free one.
FirstFree(p) == calls[p].pc = "idle" /\ (p = "p2" => calls["p1"].pc # "idle")

\* Records that calls past their checks have still to append.
Owed ==
    Cardinality({p \in Workers :
        calls[p].pc \in {"saveReserved", "record"} /\ OrZero(calls[p].quantity) > 0})

\* createTransaction: findById, validateTransactionLocations,
\* calculateItemStats, transaction.save() of the shell.
SaveShell(p, dto) ==
    /\ FirstFree(p)
    /\ dto.inventoryItem \in DOMAIN items
    /\ ValidateTransactionLocations(dto)
    /\ TransactionValid(TransactionShell(dto, TotalStock(items[dto.inventoryItem])))
    /\ Len(transactions) + Owed < MaxTx
    /\ transactions' =
           Append(transactions, TransactionShell(dto, TotalStock(items[dto.inventoryItem])))
    /\ calls' = [calls EXCEPT ![p] = [pc |-> "find", dto |-> dto,
                                       tx |-> Len(transactions) + 1]]
    /\ UNCHANGED items

\* updateStockLevels: findById, the switch, the forEach and the validators of
\* save(); a throw ends the request with its shell left in the ledger.
FindForUpdate(p) ==
    /\ calls[p].pc = "find"
    /\ LET loaded == items[calls[p].dto.inventoryItem]
           m == MutatedDoc(loaded, calls[p].dto)
       IN  /\ WithinBounds([i \in {calls[p].dto.inventoryItem} |-> m.doc], transactions)
           /\ calls' = [calls EXCEPT ![p] =
                  IF m.error # "" \/ ~DocValid(m.doc) THEN Idle
                  ELSE [pc |-> "save", dto |-> calls[p].dto, tx |-> calls[p].tx,
                        loaded |-> loaded]]
    /\ UNCHANGED <<items, transactions>>

\* updateStockLevels: the hooks of save() and the write of the changed paths.
SaveStockLevels(p) ==
    /\ calls[p].pc = "save"
    /\ LET id == calls[p].dto.inventoryItem
           m == MutatedDoc(calls[p].loaded, calls[p].dto)
       IN  items' = [items EXCEPT ![id] = SaveItem(items[id], calls[p].loaded, m.doc).item]
    /\ calls' = [calls EXCEPT ![p] = [pc |-> "stats", dto |-> calls[p].dto,
                                       tx |-> calls[p].tx]]
    /\ UNCHANGED transactions

\* Variant: stockAfter is worked out from stockBefore and the request, not read.
SaveStockAfterOwnEffect(p) ==
    /\ calls[p].pc = "stats"
    /\ transactions' = [transactions EXCEPT ![calls[p].tx].stockAfter =
           {OrZero(transactions[calls[p].tx].stockBefore)
              + (IF calls[p].dto.transactionType \in InboundTypes THEN calls[p].dto.quantity
                 ELSE IF calls[p].dto.transactionType \in OutboundTypes
                 THEN 0 - calls[p].dto.quantity
                 ELSE 0)}]
    /\ calls' = [calls EXCEPT ![p] = Idle]
    /\ UNCHANGED items

\* Variant: the second save restates stockBefore as well.
SaveStockAfterRestating(p) ==
    /\ calls[p].pc = "stats"
    /\ transactions' = [transactions EXCEPT
           ![calls[p].tx].stockAfter = {TotalStock(items[calls[p].dto.inventoryItem])},
           ![calls[p].tx].stockBefore = {TotalStock(items[calls[p].dto.inventoryItem])}]
    /\ calls' = [calls EXCEPT ![p] = Idle]
    /\ UNCHANGED items

\* createTransaction: findById again, calculateStockStats, the second
\* transaction.save() with stockAfter.
SaveStockAfter(p) ==
    /\ calls[p].pc = "stats"
    /\ transactions' = [transactions EXCEPT ![calls[p].tx].stockAfter =
                            {TotalStock(items[calls[p].dto.inventoryItem])}]
    /\ calls' = [calls EXCEPT ![p] = Idle]
    /\ UNCHANGED items

\* updateReservedStock: the quantity check, findById, the switch, and the
\* validators of save(); a throw ends the request with nothing written.
FindForReserve(p, dto) ==
    /\ FirstFree(p)
    /\ ~QuantityMissing(dto)
    /\ dto.inventoryItem \in DOMAIN items
    /\ LET loaded == items[dto.inventoryItem]
           r == ReservedDoc(loaded, dto)
       IN  /\ r.error = ""
           /\ DocValid(r.doc)
           /\ WithinBounds([i \in {dto.inventoryItem} |-> r.doc], transactions)
           /\ OrZero(r.quantity) > 0 => Len(transactions) + Owed < MaxTx
           /\ calls' = [calls EXCEPT ![p] = [pc |-> "saveReserved", dto |-> dto,
                                              loaded |-> loaded, quantity |-> r.quantity]]
    /\ UNCHANGED <<items, transactions>>

\* updateReservedStock: the hooks of save() and the write of the changed paths.
SaveReserved(p) ==
    /\ calls[p].pc = "saveReserved"
    /\ LET id == calls[p].dto.inventoryItem
           r == ReservedDoc(calls[p].loaded, calls[p].dto)
       IN  items' = [items EXCEPT ![id] = SaveItem(items[id], calls[p].loaded, r.doc).item]
    /\ calls' = [calls EXCEPT ![p] =
           IF OrZero(calls[p].quantity) > 0
           THEN [pc |-> "record", dto |-> calls[p].dto, quantity |-> calls[p].quantity]
           ELSE Idle]
    /\ UNCHANGED transactions

\* updateReservedStock: transactionModel.create of the record.
RecordReservation(p) ==
    /\ calls[p].pc = "record"
    /\ transactions' =
           Append(transactions, ReservationRecord(calls[p].dto, OrZero(calls[p].quantity)))
    /\ calls' = [calls EXCEPT ![p] = Idle]
    /\ UNCHANGED items

\* handleStockStatusAlignment: find() of the items; the job goes on to a
\* save() when an item's status differs from the rule.
FindForAlignment ==
    /\ calls[Cron].pc = "idle"
    /\ \E id \in DOMAIN items : items[id].stockStatus # DeriveStockStatus(items[id].stockLevels)
    /\ calls' = [calls EXCEPT ![Cron] = [pc |-> "align", loaded |-> items]]
    /\ UNCHANGED <<items, transactions>>

\* handleStockStatusAlignment: item.save() of the loop.
SaveAlignment ==
    /\ calls[Cron].pc = "align"
    /\ items' = [id \in DOMAIN items |-> AlignItem(items[id], calls[Cron].loaded[id]).item]
    /\ calls' = [calls EXCEPT ![Cron] = Idle]
    /\ UNCHANGED transactions

\* Requests served as they arrive, their steps interleaved.
ConcurrentNext ==
    \/ \E id \in ItemIds, sl \in ConcurrentLevels : CreateInventoryItem(id, sl)
    \/ \E p \in Workers, dto \in ConcurrentTransactionDtos : SaveShell(p, dto)
    \/ \E p \in Workers : FindForUpdate(p)
    \/ \E p \in Workers : SaveStockLevels(p)
    \/ \E p \in Workers : SaveStockAfter(p)
    \/ \E p \in Workers, dto \in ConcurrentReservedDtos : FindForReserve(p, dto)
    \/ \E p \in Workers : SaveReserved(p)
    \/ \E p \in Workers : RecordReservation(p)
    \/ FindForAlignment
    \/ SaveAlignment

ConcurrentSpec == Init /\ [][ConcurrentNext]_vars

(* ------------------ deleteInventoryItem in flight ---------------------- *)

\* transactionModel.exists({inventoryItem: id})
HasTransactions(txs, id) == \E i \in 1..Len(txs) : txs[i].inventoryItem = id

\* deleteInventoryItem: the exists() query; the handler goes on to the soft
\* or to the hard delete by what the query returned.
CheckHistory(p, id) ==
    /\ calls[p].pc = "idle"
    /\ id \in DOMAIN items
    /\ calls' = [calls EXCEPT ![p] =
           [pc |-> IF HasTransactions(transactions, id) THEN "deactivate" ELSE "remove",
            id |-> id]]
    /\ UNCHANGED <<items, transactions>>

\* deleteInventoryItem: findByIdAndUpdate(id, {isActive: false}); an id the
\* store does not hold updates nothing.
Deactivate(p) ==
    /\ calls[p].pc = "deactivate"
    /\ items' = [id \in DOMAIN items |->
                    IF id = calls[p].id THEN [items[id] EXCEPT !.isActive = FALSE]
                    ELSE items[id]]
    /\ calls' = [calls EXCEPT ![p] = Idle]
    /\ UNCHANGED transactions

\* deleteInventoryItem: findByIdAndDelete(id); NotFound when it returns null.
Remove(p) ==
    /\ calls[p].pc = "remove"
    /\ items' = [id \in DOMAIN items \ {calls[p].id} |-> items[id]]
    /\ calls' = [calls EXCEPT ![p] = Idle]
    /\ UNCHANGED transactions

\* A createTransaction between two of its awaits whose item is in the store.
Held(p) ==
    /\ calls[p].pc \in {"find", "save", "stats"}
    /\ calls[p].dto.inventoryItem \in DOMAIN items

\* createTransaction after the item was removed under it: findById returns
\* null (NotFound in updateStockLevels, a TypeError in calculateStockStats)
\* and save() of the removed document matches nothing; each ends the request.
ItemGone(p) ==
    /\ calls[p].pc \in {"find", "save", "stats"}
    /\ calls[p].dto.inventoryItem \notin DOMAIN items
    /\ calls' = [calls EXCEPT ![p] = Idle]
    /\ UNCHANGED <<items, transactions>>

\* One handler serves createTransaction, the other deleteInventoryItem.
DeleteNext ==
    \/ \E id \in ItemIds, sl \in ConcurrentLevels : CreateInventoryItem(id, sl)
    \/ \E dto \in PositiveTransactionDtos : SaveShell("p1", dto)
    \/ Held("p1") /\ FindForUpdate("p1")
    \/ Held("p1") /\ SaveStockLevels("p1")
    \/ Held("p1") /\ SaveStockAfter("p1")
    \/ ItemGone("p1")
    \/ \E id \in ItemIds : CheckHistory("p2", id)
    \/ Deactivate("p2")
    \/ Remove("p2")

DeleteSpec == Init /\ [][DeleteNext]_vars

(* --------------------------- batches ----------------------------------- *)

BulkEntriesOf(ids, locations, quantities) ==
    [itemId : ids, locationId : locations, quantity : quantities,
     operation : BulkOperations]

BatchesOf(entries) == {<<a>> : a \in entries} \cup {<<a, b>> : a \in entries, b \in entries}

\* The batches served: one or two entries at WH1.
BulkUpdates == BatchesOf(BulkEntriesOf(ItemIds, {"WH1"}, {1, MaxStock}))

\* bulkUpdateStock as one request; the handler keeps the batch it served, where
\* the ledger stood when it began and the error it threw.
BulkUpdateStock(updates) ==
    LET out == BulkUpdateStockOutcome(items, transactions, updates)
    IN  /\ \A i \in 1..Len(updates) : updates[i].itemId \in DOMAIN items
        /\ out.transactions # transactions
        /\ WithinBounds(out.items, out.transactions)
        /\ items' = out.items
        /\ transactions' = out.transactions
        /\ calls' = [calls EXCEPT !["p1"] = [pc |-> "idle", updates |-> updates,
                                             tx |-> Len(transactions),
                                             error |-> out.error]]

BulkNext ==
    \/ \E id \in ItemIds, a \in SingleLevels : CreateInventoryItem(id, <<a>>)
    \/ \E updates \in BulkUpdates : BulkUpdateStock(updates)

BulkSpec == Init /\ [][BulkNext]_vars

(* ----------------------- drift and the sweep ---------------------------- *)

\* The sources of status drift together: direct edits, and one handler whose
\* createTransaction interleaves with the cron job. The job is scheduled
\* every ten minutes, so each of its two steps is taken when it stays enabled.
DriftNext ==
    \/ \E id \in ItemIds, sl \in ConcurrentLevels : CreateInventoryItem(id, sl)
    \/ \E id \in ItemIds, sl \in ConcurrentLevels : UpdateInventoryItem(id, sl)
    \/ \E dto \in PositiveTransactionDtos : SaveShell("p1", dto)
    \/ FindForUpdate("p1")
    \/ SaveStockLevels("p1")
    \/ SaveStockAfter("p1")
    \/ FindForAlignment
    \/ SaveAlignment

DriftSpec ==
    Init /\ [][DriftNext]_vars /\ WF_vars(FindForAlignment) /\ WF_vars(SaveAlignment)

(* ============================== properties ============================= *)

\* The stock levels of the item a request names, before and after it.
Pre(dto) == items[dto.inventoryItem].stockLevels

Post(out, dto) == out.items[dto.inventoryItem].stockLevels

\* A request against an item of the store, and what createTransaction makes of it.
TxOut(dto) == CreateTransactionOutcome(items, transactions, dto)

Served(dto) == dto.inventoryItem \in DOMAIN items

Populated(tx) == tx.stockAfter # {}

(* C1: every persisted stock level has
   availableStock = max(0, currentStock - reservedStock), in every state
   reached by item creation, createTransaction, updateReservedStock and the
   sweep served one after the other. *)
C1_AvailableClamped ==
    \A id \in DOMAIN items : \A i \in 1..Len(items[id].stockLevels) :
        LET l == items[id].stockLevels[i]
        IN  l.availableStock =
                (IF l.currentStock - l.reservedStock > 0
                 THEN l.currentStock - l.reservedStock ELSE 0)

\* A completed transaction has left a level with more reserved than in stock.
C1_Witness ==
    /\ \E k \in 1..Len(transactions) : Populated(transactions[k])
    /\ \E id \in DOMAIN items : \E i \in 1..Len(items[id].stockLevels) :
          /\ items[id].stockLevels[i].reservedStock > items[id].stockLevels[i].currentStock
          /\ items[id].stockLevels[i].availableStock = 0

(* C2: the persisted stockStatus is OUT_OF_STOCK exactly when the item's
   total currentStock is 0, in every state reached with direct edits
   (updateInventoryItem) among the operations. *)
C2_OutOfStockIffZero ==
    \A id \in DOMAIN items :
        (items[id].stockStatus = OUT_OF_STOCK) <=> (SumCurrent(items[id].stockLevels) = 0)

\* The least minimumLevel of the levels, stated apart from the hook.
LeastMinimum(levels) ==
    CHOOSE m \in {levels[i].minimumLevel : i \in 1..Len(levels)} :
        \A j \in 1..Len(levels) : m <= levels[j].minimumLevel

ThreeWayRule(levels) ==
    IF SumCurrent(levels) = 0 THEN OUT_OF_STOCK
    ELSE IF SumCurrent(levels) <= LeastMinimum(levels) THEN LOW_STOCK
    ELSE IN_STOCK

(* C3: after item creation, createTransaction and updateReservedStock the
   persisted stockStatus is the three-way rule of the item's stock levels:
   OUT_OF_STOCK at total 0, LOW_STOCK at 0 < total <= least minimumLevel,
   IN_STOCK otherwise. *)
C3_StatusFollowsRule ==
    /\ \A id \in DOMAIN items : items[id].stockStatus = ThreeWayRule(items[id].stockLevels)
    /\ \A dto \in CreateTransactionDtos :
          Served(dto) =>
              LET out == TxOut(dto)
              IN  out.error = "" =>
                      out.items[dto.inventoryItem].stockStatus = ThreeWayRule(Post(out, dto))

\* A sale has completed and left the item in LOW_STOCK.
C3_Witness ==
    /\ \E k \in 1..Len(transactions) :
          transactions[k].transactionType = "Sale" /\ Populated(transactions[k])
          /\ transactions[k].quantity > 0
    /\ \E id \in DOMAIN items : items[id].stockStatus = LOW_STOCK

(* C4: a successful TRANSFER of Q from A to B leaves currentStock(A) =
   pre(A) - Q and currentStock(B) = pre(B) + Q, and the item's total
   currentStock unchanged. *)
C4_TransferConserves ==
    \A dto \in TransactionDtosOf({"Transfer"}) :
        Served(dto) =>
            LET out == TxOut(dto)
                pre == Pre(dto)
                a == FindLevel(pre, dto.fromLocation)
                b == FindLevel(pre, dto.toLocation)
                post == Post(out, dto)
            IN  out.error = "" =>
                    /\ post[a].currentStock = pre[a].currentStock - dto.quantity
                    /\ post[b].currentStock = pre[b].currentStock + dto.quantity
                    /\ SumCurrent(post) = SumCurrent(pre)

\* A transfer of a positive quantity has completed.
C4_Witness ==
    \E k \in 1..Len(transactions) :
        /\ transactions[k].transactionType = "Transfer"
        /\ Populated(transactions[k])
        /\ transactions[k].quantity > 0
        /\ transactions[k].stockAfter = transactions[k].stockBefore

\* The signed change of currentStock a type makes at its own location.
Delta(dto) == IF dto.transactionType \in InboundTypes THEN dto.quantity ELSE 0 - dto.quantity

OwnLocation(dto) ==
    IF dto.transactionType \in InboundTypes THEN dto.toLocation ELSE dto.fromLocation

(* C5: a successful inbound createTransaction changes only the currentStock
   of the toLocation level, by +quantity; a successful outbound one only the
   currentStock of the fromLocation level, by -quantity; every other
   currentStock and every reservedStock of the item is unchanged. *)
C5_OneLevelChanges ==
    \A dto \in TransactionDtosOf(InboundTypes \cup OutboundTypes) :
        Served(dto) =>
            LET out == TxOut(dto)
                pre == Pre(dto)
                own == FindLevel(pre, OwnLocation(dto))
                post == Post(out, dto)
            IN  out.error = "" =>
                    /\ own # 0
                    /\ Len(post) = Len(pre)
                    /\ \A j \in 1..Len(post) :
                          /\ post[j].reservedStock = pre[j].reservedStock
                          /\ post[j].location = pre[j].location
                          /\ post[j].currentStock =
                                 pre[j].currentStock + (IF j = own THEN Delta(dto) ELSE 0)

\* An inbound and an outbound transaction have completed on a two-level item.
C5_Witness ==
    /\ \E k \in 1..Len(transactions) :
          transactions[k].transactionType \in InboundTypes /\ Populated(transactions[k])
    /\ \E k \in 1..Len(transactions) :
          transactions[k].transactionType \in OutboundTypes /\ Populated(transactions[k])
    /\ \E id \in DOMAIN items : Len(items[id].stockLevels) = 2

\* The record createTransaction leaves behind when updateStockLevels throws.
LastOf(txs) == txs[Len(txs)]

C6_Rejected ==
    \A dto \in TransactionDtosOf(OutboundTypes) :
        Served(dto) =>
            LET pre == Pre(dto)
                i == FindLevel(pre, dto.fromLocation)
                out == TxOut(dto)
            IN  i # 0 /\ dto.quantity > pre[i].currentStock =>
                    /\ out.error # ""
                    /\ out.items = items
                    /\ Len(out.transactions) = Len(transactions) + 1
                    /\ SubSeq(out.transactions, 1, Len(transactions)) = transactions
                    /\ ~Populated(LastOf(out.transactions))

C6_StaysUnpopulated ==
    \A k \in 1..Len(transactions) :
        ~Populated(transactions[k]) =>
            k <= Len(transactions') /\ ~Populated(transactions'[k])

(* C6: an outbound createTransaction whose quantity exceeds the currentStock
   of its fromLocation level is rejected and changes no stock level; the
   record it leaves has no stockAfter, and no later step of the sequential
   program gives it one. *)
C6_OutboundInsufficient == []C6_Rejected /\ [][C6_StaysUnpopulated]_vars

\* The ledger holds the shell of a sale of more than the level holds.
C6_Witness ==
    \E k \in 1..Len(transactions) : \E id \in DOMAIN items :
        LET tx == transactions[k]
            i == FindLevel(items[id].stockLevels, tx.fromLocation)
        IN  /\ tx.transactionType \in OutboundTypes
            /\ ~Populated(tx)
            /\ tx.stockBefore # {}
            /\ i # 0
            /\ tx.quantity > items[id].stockLevels[i].currentStock
            /\ k < Len(transactions)

(* C7: a successful ALLOCATION of Q at location A adds Q to reservedStock(A),
   leaves every currentStock and the total unchanged, and leaves
   availableStock(A) = currentStock(A) - reservedStock(A). *)
C7_AllocationReserves ==
    \A dto \in TransactionDtosOf({"Project Allocation"}) :
        Served(dto) =>
            LET out == TxOut(dto)
                pre == Pre(dto)
                a == FindLevel(pre, dto.fromLocation)
                post == Post(out, dto)
            IN  out.error = "" =>
                    /\ post[a].reservedStock = pre[a].reservedStock + dto.quantity
                    /\ \A j \in 1..Len(post) : post[j].currentStock = pre[j].currentStock
                    /\ SumCurrent(post) = SumCurrent(pre)
                    /\ post[a].availableStock = post[a].currentStock - post[a].reservedStock

\* An allocation has completed and its level holds a reservation.
C7_Witness ==
    \E k \in 1..Len(transactions) : \E id \in DOMAIN items :
        LET tx == transactions[k]
            i == FindLevel(items[id].stockLevels, tx.fromLocation)
        IN  /\ tx.transactionType = "Project Allocation"
            /\ Populated(tx)
            /\ tx.quantity > 0
            /\ i # 0
            /\ items[id].stockLevels[i].reservedStock >= tx.quantity

(* C8: an ALLOCATION whose quantity exceeds currentStock - reservedStock of
   its fromLocation level is rejected, and every stock level is unchanged. *)
C8_AllocationInsufficient ==
    \A dto \in TransactionDtosOf({"Project Allocation"}) :
        Served(dto) =>
            LET pre == Pre(dto)
                a == FindLevel(pre, dto.fromLocation)
                out == TxOut(dto)
            IN  a # 0 /\ dto.quantity > pre[a].currentStock - pre[a].reservedStock =>
                    out.error # "" /\ out.items = items

\* The ledger holds the shell of an allocation beyond what a level with a
\* reservation has left.
C8_Witness ==
    \E k \in 1..Len(transactions) : \E id \in DOMAIN items :
        LET tx == transactions[k]
            i == FindLevel(items[id].stockLevels, tx.fromLocation)
        IN  /\ tx.transactionType = "Project Allocation"
            /\ ~Populated(tx)
            /\ tx.stockBefore # {}
            /\ i # 0
            /\ items[id].stockLevels[i].reservedStock > 0
            /\ tx.quantity <= items[id].stockLevels[i].currentStock
            /\ tx.quantity > items[id].stockLevels[i].currentStock
                                - items[id].stockLevels[i].reservedStock

(* C9: every persisted stock level has currentStock >= 0 and reservedStock
   >= 0 in every state reached by createTransaction and updateReservedStock
   requests whose steps interleave and whose quantity has any sign. *)
C9_StockNeverNegative ==
    \A id \in DOMAIN items : \A i \in 1..Len(items[id].stockLevels) :
        /\ items[id].stockLevels[i].currentStock >= 0
        /\ items[id].stockLevels[i].reservedStock >= 0

\* Two sales that read the same stock have both completed, together for more
\* than the stock they read.
C9_Witness ==
    /\ Len(transactions) = 2
    /\ \A k \in 1..2 :
          /\ transactions[k].transactionType = "Sale"
          /\ Populated(transactions[k])
    /\ transactions[1].stockBefore = transactions[2].stockBefore
    /\ \E b \in transactions[1].stockBefore :
          transactions[1].quantity + transactions[2].quantity > b
    /\ calls["p1"].pc = "idle" /\ calls["p2"].pc = "idle"

ReservedWithinCurrent(its) ==
    \A id \in DOMAIN its : \A i \in 1..Len(its[id].stockLevels) :
        its[id].stockLevels[i].reservedStock <= its[id].stockLevels[i].currentStock

\* C10 as stated: once every level of an item has reservedStock <=
\* currentStock, a createTransaction or updateReservedStock leaves it so.
C10_ReservedStaysWithinCurrent ==
    [][items # <<>> /\ ReservedWithinCurrent(items) => ReservedWithinCurrent(items')]_vars

(* C10, amended: a successful reservation increase, by an ALLOCATION
   createTransaction or by updateReservedStock INCREASE, leaves the level it
   touches with reservedStock <= currentStock, whatever the sign of its
   quantity. *)
C10_IncreaseWithinCurrent ==
    /\ \A dto \in TransactionDtosOf({"Project Allocation"}) :
          Served(dto) =>
              LET out == TxOut(dto)
                  a == FindLevel(Pre(dto), dto.fromLocation)
                  post == Post(out, dto)
              IN  out.error = "" => post[a].reservedStock <= post[a].currentStock
    /\ \A dto \in AnyReservedStockUpdateDtos :
          Served(dto) /\ dto.action = "increase" =>
              LET out == UpdateReservedStockOutcome(items, transactions, dto)
                  a == FindLevel(Pre(dto), dto.location)
                  post == Post(out, dto)
              IN  out.error = "" => post[a].reservedStock <= post[a].currentStock

\* updateReservedStock INCREASE has reserved all that a level holds.
C10_Witness ==
    \E k \in 1..Len(transactions) : \E id \in DOMAIN items :
        LET tx == transactions[k]
            i == FindLevel(items[id].stockLevels, tx.fromLocation)
        IN  /\ tx.transactionType = "Project Allocation"
            /\ tx.stockBefore = {}
            /\ i # 0
            /\ items[id].stockLevels[i].reservedStock > 0
            /\ items[id].stockLevels[i].reservedStock = items[id].stockLevels[i].currentStock

\* Two sales of the one-level item read the same stock b, each for no more
\* than b and together for more, and both have completed.
SalesRaced(b) ==
    /\ Len(transactions) = 2
    /\ \A k \in 1..2 :
          /\ transactions[k].transactionType = "Sale"
          /\ transactions[k].fromLocation = "WH1"
          /\ Populated(transactions[k])
          /\ transactions[k].stockBefore = {b}
          /\ transactions[k].quantity > 0
          /\ transactions[k].quantity <= b
    /\ transactions[1].quantity + transactions[2].quantity > b
    /\ \A p \in Workers : calls[p].pc = "idle"

\* C11 as stated: the two sales that raced are both taken from the stock,
\* which ends below zero.
C11_OversoldBelowZero ==
    \A b \in 0..MaxStock :
        SalesRaced(b) =>
            \A id \in DOMAIN items :
                /\ items[id].stockLevels[1].currentStock =
                       b - transactions[1].quantity - transactions[2].quantity
                /\ items[id].stockLevels[1].currentStock < 0

(* C11, amended: two concurrent SALE calls that each pass the sufficiency
   check against the same stock can both complete although their quantities
   together exceed it; the later write replaces the earlier one, so the
   stored currentStock is the stock they read less one of the two quantities,
   and is not below zero. *)
C11_OversoldLostUpdate ==
    \A b \in 0..MaxStock :
        SalesRaced(b) =>
            \A id \in DOMAIN items :
                /\ items[id].stockLevels[1].currentStock >= 0
                /\ items[id].stockLevels[1].currentStock \in
                       {b - transactions[1].quantity, b - transactions[2].quantity}

\* The race has happened: two completed sales of MaxStock each from a stock
\* of MaxStock.
C11_Witness ==
    /\ SalesRaced(MaxStock)
    /\ transactions[1].quantity = MaxStock
    /\ transactions[2].quantity = MaxStock
    /\ \E id \in DOMAIN items : items[id].stockLevels[1].currentStock = 0

\* The change of the total a type stands for.
TotalDelta(dto) ==
    IF dto.transactionType \in InboundTypes THEN dto.quantity
    ELSE IF dto.transactionType \in OutboundTypes THEN 0 - dto.quantity
    ELSE 0

(* C12: a createTransaction served without interleaving that completes
   leaves a record whose stockBefore is the item's total currentStock before
   the mutation and whose stockAfter is the total after it; their difference
   is +quantity for inbound types, -quantity for outbound types and 0 for
   TRANSFER and ALLOCATION. *)
C12_SnapshotsBracketMutation ==
    \A dto \in CreateTransactionDtos :
        Served(dto) =>
            LET out == TxOut(dto)
                before == SumCurrent(Pre(dto))
                after == SumCurrent(Post(out, dto))
            IN  out.error = "" =>
                    /\ Len(out.transactions) = Len(transactions) + 1
                    /\ LastOf(out.transactions).stockBefore = {before}
                    /\ LastOf(out.transactions).stockAfter = {after}
                    /\ after - before = TotalDelta(dto)

\* A receipt and a reservation have completed with the snapshots the claim
\* gives them, on an item that holds a reservation.
C12_Witness ==
    /\ \E k \in 1..Len(transactions) :
          /\ transactions[k].transactionType \in InboundTypes
          /\ transactions[k].quantity > 0
          /\ \E b \in transactions[k].stockBefore :
                transactions[k].stockAfter = {b + transactions[k].quantity}
    /\ \E k \in 1..Len(transactions) :
          /\ transactions[k].transactionType = "Project Allocation"
          /\ Populated(transactions[k])
          /\ transactions[k].stockAfter = transactions[k].stockBefore

\* Item ids a request can carry: those of the store and one that resolves to
\* nothing.
RequestItemIds == ItemIds \cup {"i0"}

NamingItem(dto, id) == [dto EXCEPT !.inventoryItem = id]

\* A supplied location the registry does not hold.
LocationUnregistered(dto) ==
    \/ dto.fromLocation # NoLocation /\ dto.fromLocation \notin Registry
    \/ dto.toLocation # NoLocation /\ dto.toLocation \notin Registry

(* C13: a createTransaction whose item id does not resolve, or one of whose
   supplied locations is not in the location registry, is rejected with no
   side effect: the ledger and every item are as before. *)
C13_ValidationFailsClean ==
    \A dto \in CreateTransactionDtos : \A id \in RequestItemIds :
        LET request == NamingItem(dto, id)
            out == CreateTransactionOutcome(items, transactions, request)
        IN  id \notin DOMAIN items \/ LocationUnregistered(request) =>
                /\ out.error # ""
                /\ out.items = items
                /\ out.transactions = transactions

\* An item with a ledger, against which a request naming an unknown item and
\* a request naming an unregistered location are both refused.
C13_Witness ==
    /\ items # <<>>
    /\ transactions # <<>>
    /\ \E dto \in CreateTransactionDtos :
          /\ CreateTransactionOutcome(items, transactions, NamingItem(dto, "i0")).error # ""
          /\ ~LocationUnregistered(dto)
    /\ \E dto \in CreateTransactionDtos :
          /\ Served(dto)
          /\ LocationUnregistered(dto)
          /\ TxOut(dto).error # ""

\* A request whose type is none of the enum's.
UnsupportedTypeDtos ==
    [inventoryItem : ItemIds,
     transactionType : {"Stocktake"},
     quantity : {1},
     fromLocation : {NoLocation, "WH1"},
     toLocation : {NoLocation}]

\* The request passes the item and location checks and the switch of
\* updateStockLevels throws.
FailsInMutation(dto) ==
    /\ Served(dto)
    /\ ~LocationUnregistered(dto)
    /\ ValidateTransactionLocations(dto)
    /\ ApplyTransactionType(Pre(dto), dto).error # ""

\* The shell is in the ledger, with stockBefore and without stockAfter, and
\* the items are as before.
ShellLeft(dto) ==
    LET out == TxOut(dto)
    IN  /\ out.error # ""
        /\ out.items = items
        /\ Len(out.transactions) = Len(transactions) + 1
        /\ SubSeq(out.transactions, 1, Len(transactions)) = transactions
        /\ LastOf(out.transactions).transactionType = dto.transactionType
        /\ LastOf(out.transactions).stockBefore = {SumCurrent(Pre(dto))}
        /\ ~Populated(LastOf(out.transactions))

\* A record without stockAfter is still there, as it was, after the step.
ShellsStay ==
    \A k \in 1..Len(transactions) :
        ~Populated(transactions[k]) =>
            k <= Len(transactions') /\ transactions'[k] = transactions[k]

C14_AnyFailureLeavesShell ==
    \A dto \in CreateTransactionDtos \cup UnsupportedTypeDtos :
        FailsInMutation(dto) => ShellLeft(dto)

\* C14 as stated: every failure of the mutation step, an unsupported type
\* among them, leaves the shell behind, and no later step removes or
\* completes it.
C14_ShellLeftAlsoUnsupported == []C14_AnyFailureLeavesShell /\ [][ShellsStay]_vars

C14_EnumFailureLeavesShell ==
    \A dto \in CreateTransactionDtos : FailsInMutation(dto) => ShellLeft(dto)

(* C14, amended: a createTransaction of one of the ten types that passes
   item and location validation and fails in the mutation step (required
   location missing for the type, location absent from the item's
   stockLevels, insufficient stock) leaves a record with stockBefore set and
   stockAfter never populated, the item's stock levels unchanged, and no
   later step of the sequential program removes or completes the record. *)
C14_ShellLeftBehind == []C14_EnumFailureLeavesShell /\ [][ShellsStay]_vars

\* The shell of a sale that named no fromLocation is in the ledger, and a
\* later record has followed it.
C14_Witness ==
    \E k \in 1..Len(transactions) :
        /\ transactions[k].transactionType \in OutboundTypes
        /\ transactions[k].fromLocation = NoLocation
        /\ transactions[k].stockBefore # {}
        /\ ~Populated(transactions[k])
        /\ k < Len(transactions)

\* The locations of an item's stock levels, in order.
LocationsOf(levels) == [i \in 1..Len(levels) |-> levels[i].location]

\* The locations the type's branch of updateStockLevels looks up.
LocationsRead(dto) ==
    IF dto.transactionType \in InboundTypes THEN {dto.toLocation}
    ELSE IF dto.transactionType = "Transfer" THEN {dto.fromLocation, dto.toLocation}
    ELSE {dto.fromLocation}

\* The request passes validation, and a location its type reads is registered
\* but is not among the item's levels.
ReadsForeignLocation(dto) ==
    /\ Served(dto)
    /\ ValidateTransactionLocations(dto)
    /\ LocationsRead(dto) \subseteq Registry
    /\ \E l \in LocationsRead(dto) : FindLevel(Pre(dto), l) = 0

(* C15: a createTransaction that reads a registered location the item has no
   stock level for is rejected with NotFound, and every createTransaction,
   successful or not, leaves the locations of the item's stockLevels as they
   were. *)
C15_NoAutoProvision ==
    \A dto \in CreateTransactionDtos :
        Served(dto) =>
            LET out == TxOut(dto)
            IN  /\ LocationsOf(Post(out, dto)) = LocationsOf(Pre(dto))
                /\ ReadsForeignLocation(dto) =>
                       /\ out.error = "NotFound: location not in stockLevels"
                       /\ out.items = items

\* The shell of a receipt at a registered location the item has no level for
\* is in the ledger, and the item still has its one level.
C15_Witness ==
    \E k \in 1..Len(transactions) : \E id \in DOMAIN items :
        /\ transactions[k].transactionType \in InboundTypes
        /\ transactions[k].toLocation \in Registry
        /\ FindLevel(items[id].stockLevels, transactions[k].toLocation) = 0
        /\ ~Populated(transactions[k])
        /\ Len(items[id].stockLevels) = 1

\* A record apart from its stockAfter.
AsInserted(tx) == [tx EXCEPT !.stockAfter = {}]

\* What a step may do to the ledger: keep every record, append, and give a
\* record its stockAfter once, from the call that inserted it.
LedgerStep ==
    /\ Len(transactions') >= Len(transactions)
    /\ \A k \in 1..Len(transactions) :
          /\ AsInserted(transactions'[k]) = AsInserted(transactions[k])
          /\ Populated(transactions[k]) => transactions'[k] = transactions[k]
          /\ transactions'[k] # transactions[k] =>
                 \E p \in Workers :
                     /\ calls[p].pc = "stats"
                     /\ calls[p].tx = k
                     /\ calls'[p].pc = "idle"

(* C16: the ledger is append-only apart from one back-fill: no step deletes
   a record, the only field written after insertion is stockAfter, and it is
   written at most once, by the createTransaction call that inserted the
   record. *)
C16_LedgerAppendOnly == [][LedgerStep]_vars

\* A record of createTransaction has been back-filled and a record of
\* updateReservedStock has been appended after it.
C16_Witness ==
    /\ Len(transactions) = 2
    /\ transactions[1].stockBefore # {}
    /\ Populated(transactions[1])
    /\ transactions[2].stockBefore = {}
    /\ \A p \in Workers : calls[p].pc = "idle"

\* What updateReservedStock makes of a request.
RsOut(dto) == UpdateReservedStockOutcome(items, transactions, dto)

\* The level of the item at the request's location, 0 when it has none.
OwnLevel(dto) == FindLevel(Pre(dto), dto.location)

\* The request asks for more than the level can give.
BeyondLimit(dto) ==
    LET l == Pre(dto)[OwnLevel(dto)]
    IN  \/ dto.action = "increase" /\ OrZero(dto.quantity) > l.currentStock - l.reservedStock
        \/ dto.action = "decrease" /\ OrZero(dto.quantity) > l.reservedStock

(* C17: updateReservedStock INCREASE with quantity > currentStock -
   reservedStock, and DECREASE with quantity > reservedStock, are rejected;
   the item's stock levels are unchanged and no Transaction is appended. *)
C17_ReservedRejections ==
    \A dto \in AnyReservedStockUpdateDtos :
        Served(dto) /\ OwnLevel(dto) # 0 /\ BeyondLimit(dto) =>
            /\ RsOut(dto).error # ""
            /\ RsOut(dto).items = items
            /\ RsOut(dto).transactions = transactions

\* After a recorded reservation, a level with some stock reserved and some
\* free refuses an increase and a decrease of MaxStock, each for its own reason.
C17_Witness ==
    /\ \E k \in 1..Len(transactions) :
          transactions[k].transactionType = "Project Allocation"
          /\ transactions[k].stockBefore = {}
    /\ \E dto \in AnyReservedStockUpdateDtos :
          /\ Served(dto) /\ OwnLevel(dto) # 0
          /\ dto.action = "increase" /\ dto.quantity = {MaxStock}
          /\ Pre(dto)[OwnLevel(dto)].reservedStock > 0
          /\ Pre(dto)[OwnLevel(dto)].currentStock > Pre(dto)[OwnLevel(dto)].reservedStock
          /\ RsOut(dto).error = "BadRequest: Cannot reserve more than available"
          /\ RsOut([dto EXCEPT !.action = "decrease"]).error =
                 "BadRequest: Cannot unreserve more than reserved"

\* The record a successful request appended, if it appended one.
Appended(out) == Len(out.transactions) = Len(transactions) + 1

(* C18: UNRESERVE_ALL sets the level's reservedStock to 0 and its
   availableStock to currentStock whatever quantity the request carries, and
   the record it appends is a RETURN whose quantity is the reservedStock the
   level held before. *)
C18_UnreserveAllReleases ==
    \A dto \in ReservedStockUpdateDtos :
        Served(dto) /\ OwnLevel(dto) # 0 /\ dto.action = "unreserve_all" =>
            LET out == RsOut(dto)
                a == OwnLevel(dto)
                post == Post(out, dto)
            IN  /\ out.error = ""
                /\ post[a].reservedStock = 0
                /\ post[a].availableStock = post[a].currentStock
                /\ Appended(out) =>
                       /\ LastOf(out.transactions).transactionType = "Return"
                       /\ LastOf(out.transactions).quantity = Pre(dto)[a].reservedStock

(* C19: a successful updateReservedStock appends a Transaction exactly when
   the level's reservedStock changed (ALLOCATION for INCREASE, RETURN for
   DECREASE and UNRESERVE_ALL); UNRESERVE_ALL on a level with nothing
   reserved appends nothing. *)
C19_RecordIffReservedChanged ==
    \A dto \in ReservedStockUpdateDtos :
        Served(dto) /\ OwnLevel(dto) # 0 =>
            LET out == RsOut(dto)
                a == OwnLevel(dto)
            IN  out.error = "" =>
                    /\ Appended(out) <=>
                           Post(out, dto)[a].reservedStock # Pre(dto)[a].reservedStock
                    /\ ~Appended(out) => out.transactions = transactions
                    /\ Appended(out) =>
                           LastOf(out.transactions).transactionType =
                               (IF dto.action = "increase" THEN "Project Allocation"
                                ELSE "Return")

\* The items after a run of the sweep over the store its.
Swept(its) == [id \in DOMAIN its |-> AlignItem(its[id], its[id]).item]

\* The item writes a run of the sweep makes over the store its.
SweepWrites(its) == {id \in DOMAIN its : AlignItem(its[id], its[id]).wrote}

(* C20: the sweep is idempotent: a run of handleStockStatusAlignment that
   follows another with no item mutation in between makes no item write. *)
C20_SweepIdempotent == SweepWrites(Swept(items)) = {}

\* An item whose status a direct edit has left out of line: the first run of
\* the sweep writes it.
C20_Witness ==
    /\ SweepWrites(items) # {}
    /\ Swept(items) # items

\* Every item's stockStatus is the status its stock levels derive.
Aligned == \A id \in DOMAIN items : items[id].stockStatus = ThreeWayRule(items[id].stockLevels)

\* From here on the items are written by the sweep alone.
OnlySweepWrites == items' = items \/ SaveAlignment

(* C21: if from some point on no stock mutation occurs and the sweep keeps
   being scheduled, a state is eventually reached, and then kept, in which
   every item's stockStatus equals the status derived from its stock levels. *)
C21_DriftEventuallyCorrected == <>[][OnlySweepWrites]_vars => <>[]Aligned

\* The job has read an item whose status has drifted since a
\* createTransaction was recorded.
C21_Witness ==
    /\ ~Aligned
    /\ calls[Cron].pc = "align"
    /\ transactions # <<>>

\* The levels an accepted direct edit of item id leaves in the store.
EditedLevels(id, stockLevels) ==
    LET out == UpdateInventoryItemOutcome(items, id, stockLevels)
    IN  IF out.error = "" THEN {out.items[id].stockLevels} ELSE {}

(* C22: after updateInventoryItem with new stockLevels, every stock level of
   the persisted item has availableStock = max(0, currentStock -
   reservedStock), a missing reservedStock counting as 0. *)
C22_EditRecomputesAvailable ==
    \A id \in RequestItemIds, sl \in StockLevelLists :
        \A levels \in EditedLevels(id, sl) :
            \A i \in 1..Len(levels) :
                levels[i].availableStock =
                    Max(0, levels[i].currentStock - OrZero(sl[i].reservedStock))

\* 'set' entries with a target, against any item id and location.
SetEntries == {e \in BulkEntriesOf(RequestItemIds, LocationRefs, 0..MaxStock) :
                  e.operation = "set"}

\* The level of the entry's location in the stored item, 0 when there is none.
EntryLevel(e) ==
    IF e.itemId \in DOMAIN items THEN FindLevel(items[e.itemId].stockLevels, e.locationId)
    ELSE 0

\* The ledger of out is the present one followed by one populated record of
\* the given type and quantity at the entry's location.
OneAdjustment(out, e, type, quantity) ==
    /\ Appended(out)
    /\ SubSeq(out.transactions, 1, Len(transactions)) = transactions
    /\ LET tx == LastOf(out.transactions)
       IN  /\ tx.inventoryItem = e.itemId
           /\ tx.transactionType = type
           /\ tx.quantity = quantity
           /\ e.locationId = IF type = "Adjustment In" THEN tx.toLocation ELSE tx.fromLocation
           /\ Populated(tx)

(* C23: a bulkUpdateStock entry 'set' with target T at a location the item
   holds leaves currentStock = T there; it issues one ADJUSTMENT_IN of
   T - current when T > current, one ADJUSTMENT_OUT of current - T when
   T < current, and no transaction when T = current. *)
C23_SetReachesTarget ==
    \A e \in SetEntries :
        EntryLevel(e) # 0 =>
            LET out == BulkUpdateStockOutcome(items, transactions, <<e>>)
                i == EntryLevel(e)
                current == items[e.itemId].stockLevels[i].currentStock
            IN  /\ out.error = ""
                /\ out.items[e.itemId].stockLevels[i].currentStock = e.quantity
                /\ e.quantity > current =>
                       OneAdjustment(out, e, "Adjustment In", e.quantity - current)
                /\ e.quantity < current =>
                       OneAdjustment(out, e, "Adjustment Out", current - e.quantity)
                /\ e.quantity = current => out.transactions = transactions

\* The batch a handler served last, if it served one.
LastBatch == IF "updates" \in DOMAIN calls["p1"] THEN {calls["p1"]} ELSE {}

\* The last batch was one 'set' that raised WH1 to its target through an
\* ADJUSTMENT_IN.
C23_Witness ==
    \E b \in LastBatch :
        /\ Len(b.updates) = 1
        /\ b.updates[1].operation = "set"
        /\ b.error = ""
        /\ Len(transactions) = b.tx + 1
        /\ LastOf(transactions).transactionType = "Adjustment In"
        /\ LastOf(transactions).quantity < b.updates[1].quantity
        /\ \E id \in DOMAIN items :
               items[id].stockLevels[1].currentStock = b.updates[1].quantity

\* Entries against any item id and location, registered or not.
AnyBulkEntries == BulkEntriesOf(RequestItemIds, LocationRefs, {1, MaxStock})

(* C24: bulkUpdateStock is not atomic: when the second entry of a batch
   fails after the first has succeeded, the call reports the failure, the
   items are as the first entry left them and the records the first entry
   appended are still in the ledger. *)
C24_BatchNotAtomic ==
    \A a \in AnyBulkEntries :
        LET first == BulkUpdateStockOutcome(items, transactions, <<a>>)
        IN  first.error = "" =>
                \A b \in AnyBulkEntries :
                    LET alone == BulkUpdateStockOutcome(first.items, first.transactions, <<b>>)
                        out == BulkUpdateStockOutcome(items, transactions, <<a, b>>)
                    IN  alone.error # "" =>
                            /\ out.error = alone.error
                            /\ out.items = first.items
                            /\ Len(out.transactions) >= Len(first.transactions)
                            /\ SubSeq(out.transactions, 1, Len(first.transactions))
                                   = first.transactions

\* The last batch threw at its second entry and the record of its first is in
\* the ledger with both snapshots.
C24_Witness ==
    \E b \in LastBatch :
        /\ Len(b.updates) = 2
        /\ b.error # ""
        /\ Len(transactions) = b.tx + 2
        /\ Populated(transactions[b.tx + 1])
        /\ ~Populated(transactions[b.tx + 2])

(* C25: deleteInventoryItem never removes an item that has transaction
   history, also when a createTransaction for the item runs concurrently: a
   step that takes an item out of the store finds no Transaction referencing
   it. *)
C25_HistoryNeverRemoved ==
    [][\A id \in DOMAIN items :
           id \notin DOMAIN items' => ~HasTransactions(transactions, id)]_vars

\* A record whose operation completed: every record but the shell a failed
\* createTransaction leaves (stockBefore without stockAfter).
TookEffect(tx) == ~(tx.stockBefore # {} /\ tx.stockAfter = {})

\* What the record appended by this step adds to the replayed total of item id.
Replayed(id) ==
    IF Len(transactions') = Len(transactions) + 1
       /\ LastOf(transactions').inventoryItem = id
       /\ TookEffect(LastOf(transactions'))
    THEN TotalDelta(LastOf(transactions'))
    ELSE 0

(* C26: the ledger replays to the stock: with createTransaction and
   updateReservedStock served one after the other, every step changes an
   item's total currentStock by what the record it appends stands for,
   +quantity for PURCHASE/RETURN/ADJUSTMENT_IN and -quantity for the outbound
   types, so that every RETURN record is a +quantity change of currentStock. *)
C26_LedgerReplays ==
    [][\A id \in DOMAIN items \cap DOMAIN items' :
           SumCurrent(items'[id].stockLevels) - SumCurrent(items[id].stockLevels)
               = Replayed(id)]_vars

(* C27: the direction of a type is never inverted, whatever the sign of the
   quantity: an accepted createTransaction of an outbound type raises no
   currentStock, one of an inbound type lowers none, and an ALLOCATION
   lowers no reservedStock. *)
C27_DirectionKept ==
    \A dto \in CreateTransactionDtos :
        Served(dto) =>
            LET out == TxOut(dto)
                pre == Pre(dto)
                post == Post(out, dto)
            IN  out.error = "" =>
                    \A j \in 1..Len(pre) :
                        /\ dto.transactionType \in OutboundTypes =>
                               post[j].currentStock <= pre[j].currentStock
                        /\ dto.transactionType \in InboundTypes =>
                               post[j].currentStock >= pre[j].currentStock
                        /\ dto.transactionType = "Project Allocation" =>
                               post[j].reservedStock >= pre[j].reservedStock

\* Record k was written by createTransaction and carries both snapshots.
Bracketed(k) == transactions[k].stockBefore # {} /\ Populated(transactions[k])

\* The difference of the two snapshots of record k.
SnapshotDelta(k) == OrZero(transactions[k].stockAfter) - OrZero(transactions[k].stockBefore)

\* C28 as stated: under interleaved calls the two snapshots of every record
\* differ by the record's own net effect.
C28_SnapshotsOwnEffect ==
    \A k \in 1..Len(transactions) :
        Bracketed(k) => SnapshotDelta(k) = TotalDelta(transactions[k])

\* A createTransaction that is the only one in the ledger brackets its own
\* effect.
C28_AloneOwnEffect ==
    Len(transactions) = 1 /\ Bracketed(1) => SnapshotDelta(1) = TotalDelta(transactions[1])

\* The step that gives a record its stockAfter stores the total currentStock
\* the item holds at that moment, and leaves stockBefore as it was.
C28_ReadsStoredTotal ==
    \A k \in 1..Len(transactions) :
        ~Populated(transactions[k]) /\ Populated(transactions'[k]) =>
            /\ transactions'[k].stockAfter =
                   {SumCurrent(items[transactions[k].inventoryItem].stockLevels)}
            /\ transactions'[k].stockBefore = transactions[k].stockBefore

(* C28: under interleaved createTransaction calls stockAfter is the item's
   total currentStock as stored when the record is back-filled, so the two
   snapshots may bracket another call's write as well; they differ by the
   record's own net effect when it is the only createTransaction. *)
C28_SnapshotsBracketStore == []C28_AloneOwnEffect /\ [][C28_ReadsStoredTotal]_vars

\* Two calls have completed and the snapshots of one differ by more or less
\* than its own effect.
C28_Witness ==
    /\ Len(transactions) = 2
    /\ \A p \in Workers : calls[p].pc = "idle"
    /\ \E k \in 1..2 : Bracketed(k) /\ SnapshotDelta(k) # TotalDelta(transactions[k])

(* C29: the stockStatus calculateItemStats reports for an item equals the
   status the item-save rule derives from the same stock levels. *)
C29_ViewStatusIsSavedRule ==
    \A id \in DOMAIN items :
        ItemStatsStatus(items[id].stockLevels) = ThreeWayRule(items[id].stockLevels)

\* No two levels of the list are at the same location.
DistinctLocations(levels) ==
    \A i, j \in 1..Len(levels) : levels[i].location = levels[j].location => i = j

\* Creation and direct edit reject a list in which a location repeats.
RepeatsRejected ==
    \A id \in RequestItemIds, sl \in StockLevelLists :
        ~DistinctLocations(sl) =>
            /\ CreateInventoryItemOutcome(items, id, sl).error # ""
            /\ UpdateInventoryItemOutcome(items, id, sl).error # ""

(* C30: in every state reached through createInventoryItem,
   updateInventoryItem, createTransaction and updateReservedStock no item
   has two stock levels at the same location; creation and update reject a
   list in which a location id repeats. *)
C30_OneLevelPerLocation ==
    /\ \A id \in DOMAIN items : DistinctLocations(items[id].stockLevels)
    /\ RepeatsRejected

\* An item of two levels has gone through a ledger operation.
C30_Witness ==
    /\ transactions # <<>>
    /\ \E id \in DOMAIN items :
           /\ Len(items[id].stockLevels) = 2
           /\ items[id].stockLevels[1].location # items[id].stockLevels[2].location

====
